---- MODULE Spec2Model ----
(***************************************************************************)
(* serial-communicator: the host side of a serial link to an Arduino.      *)
(*                                                                         *)
(* main() discovers the USB serial ports, handshakes with each of them at  *)
(* each baud rate, and then relays the text commands arriving on stdin to  *)
(* the first port that completed a handshake.                              *)
(*                                                                         *)
(* A Rust String is a buffer of bytes that is valid UTF-8, and so it is    *)
(* here: a string is a sequence of bytes (0..255); String::from_utf8 is a  *)
(* validity check and str::as_bytes is the buffer itself.                  *)
(***************************************************************************)
EXTENDS Integers, Sequences, FiniteSets, TLC

(***************************************************************************)
(* Bounds of the model.                                                    *)
(***************************************************************************)
\* the serial ports serialport::available_ports() lists, at most
MaxPorts == 1
\* the lines main() reads from stdin before the input ends, at most
MaxLines == 2
\* pieces an input string of the parser is made of
MaxPieces == 4
\* calls of write_str_ends_with made on one transport
MaxCalls == 2

(***************************************************************************)
(* Program constants.                                                      *)
(***************************************************************************)
\* const LF_TERM: u8 = b'\n'
LF_TERM == 10
\* for i in 1..=10
MAX_ATTEMPTS == 10
\* const BAUD_RATE_OPTIONS: [u32; 2] = [115_200, 9_600]
BAUD_RATE_OPTIONS == <<115200, 9600>>
\* "PC TO ARDUINO_1"
HANDSHAKE_TX_MSG == <<80, 67, 32, 84, 79, 32, 65, 82, 68, 85, 73, 78, 79, 95, 49>>
\* "ARDUINO_1 TO PC"
HANDSHAKE_RX_MSG == <<65, 82, 68, 85, 73, 78, 79, 95, 49, 32, 84, 79, 32, 80, 67>>

(***************************************************************************)
(* Bytes and strings.                                                      *)
(***************************************************************************)
\* the position of the first b in s, 0 when there is none (memchr)
RECURSIVE memchr(_, _, _)
memchr(b, s, k) ==
    IF k > Len(s) THEN 0
    ELSE IF s[k] = b THEN k
    ELSE memchr(b, s, k + 1)

\* a UTF-8 continuation byte, 10xxxxxx
IsContinuation(b) == b >= 128 /\ b <= 191

\* core::str::from_utf8's validity check, for the one- and two-byte forms
\* (the bytes of this model are below 0xE0 or are 0xFF)
RECURSIVE IsUtf8(_)
IsUtf8(s) ==
    IF s = <<>> THEN TRUE
    ELSE IF s[1] < 128 THEN IsUtf8(Tail(s))
    ELSE IF s[1] >= 194 /\ s[1] <= 223
         THEN Len(s) >= 2 /\ IsContinuation(s[2]) /\ IsUtf8(Tail(Tail(s)))
    ELSE FALSE

\* str::is_char_boundary(idx), idx counted in bytes from 0
is_char_boundary(s, idx) ==
    \/ idx = 0
    \/ idx = Len(s)
    \/ idx > 0 /\ idx < Len(s) /\ ~IsContinuation(s[idx + 1])

\* a variant that splits on spaces only
is_ascii_whitespace_SpaceOnly(b) == b = 32

\* u8::is_ascii_whitespace: space, \t, \n, form feed, \r
is_ascii_whitespace(b) == b \in {32, 9, 10, 12, 13}

\* str::split_ascii_whitespace: the maximal runs of non-whitespace bytes
RECURSIVE SplitFrom(_, _, _, _)
SplitFrom(s, k, cur, acc) ==
    IF k > Len(s)
    THEN IF cur = <<>> THEN acc ELSE Append(acc, cur)
    ELSE IF is_ascii_whitespace(s[k])
         THEN SplitFrom(s, k + 1, <<>>, IF cur = <<>> THEN acc ELSE Append(acc, cur))
         ELSE SplitFrom(s, k + 1, Append(cur, s[k]), acc)

split_ascii_whitespace(s) == SplitFrom(s, 1, <<>>, <<>>)

(***************************************************************************)
(* Action and its parser (lib.rs).                                         *)
(***************************************************************************)
\* "READ" and "WRITE"
OP_READ == <<82, 69, 65, 68>>
OP_WRITE == <<87, 82, 73, 84, 69>>

ActionRead == [t |-> "Read", s |-> <<>>]
ActionWrite(p) == [t |-> "Write", s |-> p]
EmptyOpSequence == [t |-> "EmptyOpSequence", s |-> <<>>]
UndefinedOpSequence == [t |-> "UndefinedOpSequence", s |-> <<>>]
\* the value of the local `action` outside an iteration of the loop
NoAction == [t |-> "none", s |-> <<>>]

IsErr(a) == a.t \in {"EmptyOpSequence", "UndefinedOpSequence", "MalformedOpSequence"}

\* while let Some(s) = split.next() { arg_buff.push_str(s); arg_buff.push_str(" ") }
RECURSIVE arg_buff(_)
arg_buff(toks) ==
    IF toks = <<>> THEN <<>>
    ELSE Head(toks) \o <<32>> \o arg_buff(Tail(toks))

\* a variant in which READ must stand alone
try_from_ReadAlone(action) ==
    LET split == split_ascii_whitespace(action) IN
    IF split = <<>> THEN EmptyOpSequence
    ELSE IF split = <<OP_READ>> THEN ActionRead
    ELSE IF Head(split) = OP_WRITE THEN ActionWrite(arg_buff(Tail(split)))
    ELSE UndefinedOpSequence

\* impl TryFrom<&str> for Action
try_from(action) ==
    LET split == split_ascii_whitespace(action) IN
    IF split = <<>> THEN EmptyOpSequence
    ELSE IF Head(split) = OP_READ THEN ActionRead
    ELSE IF Head(split) = OP_WRITE THEN ActionWrite(arg_buff(Tail(split)))
    ELSE UndefinedOpSequence

\* a variant that prints no space between the operation and its payload
fmt_NoSeparator(self) ==
    IF self.t = "Read" THEN OP_READ ELSE OP_WRITE \o self.s

\* impl Display for Action: "READ" or "WRITE {s}"
fmt(self) ==
    IF self.t = "Read" THEN OP_READ ELSE OP_WRITE \o <<32>> \o self.s

(***************************************************************************)
(* The transport.  What the device sends is not under the program's        *)
(* control: every call of port.read() returns what the environment gives.  *)
(* A script is the sequence of the results of the successive port.read()   *)
(* calls of one read_string_until_byte call; when the script is exhausted  *)
(* the device stays silent and the next port.read() ends with the port's   *)
(* timeout, an io::Error.                                                  *)
(***************************************************************************)
Data(b) == [k |-> "data", b |-> b]
\* Ok(0): end of stream
Eof == [k |-> "eof", b |-> <<>>]
\* an io::Error other than Interrupted
IoErr == [k |-> "err", b |-> <<>>]
\* io::ErrorKind::Interrupted, which read_until retries
Intr == [k |-> "intr", b |-> <<>>]

\* what the device may have sent before the terminator: nothing, the expected
\* response, "x", U+00E9 (two bytes), the byte 0xFF (never valid UTF-8), and
\* the expected response followed by "x"
Bodies ==
    { <<>>, HANDSHAKE_RX_MSG, <<120>>, <<195, 169>>, <<255>>,
      HANDSHAKE_RX_MSG \o <<120>> }

\* what may follow the terminator in the same chunk: nothing, "x", "x\n"
Trails == { <<>>, <<120>>, <<120, 10>> }

ReadScripts ==
    { <<>>, <<Eof>>, <<IoErr>>, <<Intr, Data(<<LF_TERM>>)>> }
    \cup { <<Data(b \o <<LF_TERM>> \o t)>> : b \in Bodies, t \in Trails }
    \cup { <<Data(b), Data(<<LF_TERM>>)>> : b \in Bodies \ {<<>>} }
    \cup { <<Data(b), e>> : b \in Bodies \ {<<>>}, e \in {Eof, IoErr} }
    \cup { <<Data(b)>> : b \in Bodies \ {<<>>} }

\* BufRead::read_until over a fresh BufReader: each iteration fills the
\* reader's buffer with one port.read(), appends the bytes up to and
\* including the delimiter to buf and stops at the delimiter or at end of
\* stream.  `dropped` is what is left in the BufReader when it is dropped.
RECURSIVE read_until(_, _, _)
read_until(script, delim, buf) ==
    IF script = <<>> \/ Head(script).k = "err"
    THEN [ok |-> FALSE, buf |-> buf, dropped |-> <<>>]
    ELSE IF Head(script).k = "intr"
    THEN read_until(Tail(script), delim, buf)
    ELSE IF Head(script).k = "eof"
    THEN [ok |-> TRUE, buf |-> buf, dropped |-> <<>>]
    ELSE LET available == Head(script).b
             i == memchr(delim, available, 1)
         IN  IF i > 0
             THEN [ok |-> TRUE,
                   buf |-> buf \o SubSeq(available, 1, i),
                   dropped |-> SubSeq(available, i + 1, Len(available))]
             ELSE read_until(Tail(script), delim, buf \o available)

\* no read_string_until_byte call has been made yet
NoRead == [ok |-> FALSE, err |-> "none", s |-> <<>>, dropped |-> <<>>]

\* pub fn read_string_until_byte(port, endbyte) -> Result<String, Box<dyn Error>>
read_string_until_byte(script, endbyte) ==
    LET r == read_until(script, endbyte, <<>>) IN
    IF ~r.ok THEN [ok |-> FALSE, err |-> "io", s |-> <<>>, dropped |-> <<>>]
    ELSE IF ~IsUtf8(r.buf)
    THEN [ok |-> FALSE, err |-> "utf8", s |-> <<>>, dropped |-> r.dropped]
    ELSE [ok |-> TRUE, err |-> "none", s |-> r.buf, dropped |-> r.dropped]

\* Write::write_all(buf): all of buf is written, or an error ends the call
\* after a proper prefix (an empty buf is never written and cannot fail)
write_all(buf) ==
    { [ok |-> TRUE, out |-> buf] }
    \cup { [ok |-> FALSE, out |-> SubSeq(buf, 1, n)] : n \in 0..(Len(buf) - 1) }

\* a variant without the `?` after the payload write
write_str_ends_with_PayloadErrorIgnored(str_to_write, endbyte) ==
    { [ok |-> e.ok, out |-> w.out \o e.out] :
        w \in write_all(str_to_write), e \in write_all(<<endbyte>>) }

\* pub fn write_str_ends_with(port, str_to_write, endbyte) -> Result<(), io::Error>
\* the results the call can have: `out` is what reached the transport
write_str_ends_with(str_to_write, endbyte) ==
    { [ok |-> FALSE, out |-> w.out] : w \in { x \in write_all(str_to_write) : ~x.ok } }
    \cup { [ok |-> e.ok, out |-> str_to_write \o e.out] : e \in write_all(<<endbyte>>) }

(***************************************************************************)
(* The fixed-width codec.  A DWORD or QWORD value is given by the `width`  *)
(* bytes of its representation in the machine's byte order.                *)
(***************************************************************************)
DWORD == 4
QWORD == 8

Reverse(buf) == [k \in 1..Len(buf) |-> buf[Len(buf) + 1 - k]]

\* what the process may find in its own memory at an address: the write
\* functions turn the value into an address (`val as *const u64`) and make a
\* reference to the `width` bytes there, which is undefined behaviour; the
\* build either faults on the access or uses whatever bytes are mapped there
Memory(width) ==
    { [k \in 1..width |-> 0], [k \in 1..width |-> 170], [k \in 1..width |-> 16 * k] }

\* write_qword_raw / write_dword_raw: port.write_all(&*buf_ptr) with
\* buf_ptr = (val as *const uN).cast()
write_raw(val, width) ==
    { [k |-> "fault", out |-> <<>>] }
    \cup { [k |-> IF w.ok THEN "ok" ELSE "err", out |-> w.out] :
             w \in UNION { write_all(m) : m \in Memory(width) } }

\* write_qword_flipped_endian / write_dword_flipped_endian: the bytes at the
\* address val are reversed in place and written
write_flipped_endian(val, width) ==
    { [k |-> "fault", out |-> <<>>] }
    \cup { [k |-> IF w.ok THEN "ok" ELSE "err", out |-> w.out] :
             w \in UNION { write_all(Reverse(m)) : m \in Memory(width) } }

\* read_qword_raw / read_dword_raw: read_exact into buf, then the bytes of
\* buf are the value
read_raw(stream, width) ==
    IF Len(stream) < width THEN [ok |-> FALSE, val |-> <<>>]
    ELSE [ok |-> TRUE, val |-> SubSeq(stream, 1, width)]

\* read_qword_flipped_endian / read_dword_flipped_endian: buf.reverse() first
read_flipped_endian(stream, width) ==
    IF Len(stream) < width THEN [ok |-> FALSE, val |-> <<>>]
    ELSE [ok |-> TRUE, val |-> Reverse(SubSeq(stream, 1, width))]

\* write!(stdout, "{s}"): s is written whole, or an error ends it part-way
write_stdout(s) == write_all(s)

(***************************************************************************)
(* The state of main().                                                    *)
(***************************************************************************)
VARIABLES
    pc,        \* where main() is: "start", "probe", the handshake's "hs_tx",
               \* "hs_btr", "hs_rx", "hs_echo", "hs_ack", "hs_ret" (handshake
               \* returned to find_arduino_serialports), the loop's "stdin",
               \* "dispatch", "forward", and "exit", "panic"
    ports,     \* available_ports: for each port, whether it is a UsbPort
    cand,      \* the candidate (port, baud rate) being probed, 1..NumCand
    port_buf,  \* the candidates pushed to port_buf, in order
    hsOk,      \* history: the candidates whose handshake() returned Ok
    i,         \* handshake(): the attempt counter of `for i in 1..=10`
    hsRet,     \* handshake(): "none" while running, then "Ok" or "ConnectionRefused"
    hsLog,     \* history: the transport calls of the current attempt
    txCount,   \* history: how often this handshake() call wrote the challenge
    hsResp,    \* history: the response read in the current attempt
    wire,      \* history: the bytes the transport took since the current
               \* handshake attempt, or the command loop, began
    rd,        \* the result of the last read_string_until_byte call
    nlines,    \* history: the lines read from stdin
    action,    \* the loop's local `action`
    inLog,     \* history: the Action::try_from result of each line read
    loopLog,   \* history: the transport calls the command loop issued
    stdout,    \* the bytes written to stdout
    exitBy,    \* why main() returned
    ux         \* the library function under test, when one is run on its
               \* own (ParseSpec, CodecSpec, FixedSpec); "main" in main()

vars ==
    << pc, ports, cand, port_buf, hsOk, i, hsRet, hsLog, txCount, hsResp, wire,
       rd, nlines, action, inLog, loopLog, stdout, exitBy, ux >>

discoveryVars == << ports, cand, port_buf, hsOk >>
handshakeVars == << i, hsRet, hsLog, txCount, hsResp >>
loopVars == << nlines, action, inLog, loopLog, stdout >>

\* the lists available_ports() can return
PortLists == UNION { [1..n -> BOOLEAN] : n \in 0..MaxPorts }

NumCand == Len(ports) * Len(BAUD_RATE_OPTIONS)
PortOf(c) == ((c - 1) \div Len(BAUD_RATE_OPTIONS)) + 1

\* the lines io::stdin().read_line() can return: not empty, valid UTF-8, and
\* with no "\n" but at the end
StdinLines ==
    { OP_READ \o <<10>>,                          \* "READ\n"
      OP_READ,                                    \* "READ", the input ends
      <<32>> \o OP_READ \o <<32, 97, 10>>,        \* " READ a\n"
      OP_WRITE \o <<32, 97, 10>>,                 \* "WRITE a\n"
      OP_WRITE \o <<10>>,                         \* "WRITE\n"
      OP_WRITE \o <<32, 97, 9, 32, 98, 13, 10>>,  \* "WRITE a\t b\r\n"
      OP_WRITE \o <<32, 195, 169, 10>>,           \* "WRITE \u{e9}\n"
      <<10>>,                                     \* "\n"
      <<32, 9, 10>>,                              \* " \t\n"
      <<80, 73, 78, 71, 32, 49, 10>>,             \* "PING 1\n"
      <<114, 101, 97, 100, 10>>,                  \* "read\n"
      OP_WRITE \o <<97, 10>> }                    \* "WRITEa\n"

\* main() has not started
MainAtStart ==
    /\ pc = "start"
    /\ ports = <<>>
    /\ cand = 1
    /\ port_buf = <<>>
    /\ hsOk = {}
    /\ i = 0
    /\ hsRet = "none"
    /\ hsLog = <<>>
    /\ txCount = 0
    /\ hsResp = <<>>
    /\ wire = <<>>
    /\ rd = NoRead
    /\ nlines = 0
    /\ action = NoAction
    /\ inLog = <<>>
    /\ loopLog = <<>>
    /\ stdout = <<>>
    /\ exitBy = "none"

Init ==
    /\ MainAtStart
    /\ ux = "main"

(***************************************************************************)
(* find_arduino_serialports()                                              *)
(***************************************************************************)
\* let available_ports = serialport::available_ports()?;
AvailablePorts ==
    /\ pc = "start"
    /\ \/ /\ \E l \in PortLists : ports' = l
          /\ pc' = "probe"
          /\ exitBy' = exitBy
       \/ /\ ports' = ports
          /\ pc' = "exit"
          /\ exitBy' = "PortsError"
    /\ UNCHANGED << cand, port_buf, hsOk, handshakeVars, wire, rd, loopVars, ux >>

\* the body of the two for loops up to the call of handshake()
Probe ==
    /\ pc = "probe"
    /\ cand <= NumCand
    /\ \/ \* not a UsbPort, or the port cannot be opened: next candidate
          /\ cand' = cand + 1
          /\ UNCHANGED << pc, handshakeVars, ux, wire, rd >>
       \/ \* opened: handshake(port.as_mut())
          /\ ports[PortOf(cand)]
          /\ pc' = "hs_tx"
          /\ i' = 1
          /\ hsRet' = "none"
          /\ hsLog' = <<>>
          /\ txCount' = 0
          /\ hsResp' = <<>>
          /\ wire' = <<>>
          /\ rd' = NoRead
          /\ cand' = cand
    /\ UNCHANGED << ports, port_buf, hsOk, loopVars, ux, exitBy >>

\* AfterHandshake with the bug of pushing the port whatever handshake() returned
AfterHandshake_PushAlways ==
    /\ pc = "hs_ret"
    /\ port_buf' = Append(port_buf, cand)
    /\ cand' = cand + 1
    /\ pc' = "probe"
    /\ i' = 0
    /\ hsRet' = "none"
    /\ hsLog' = <<>>
    /\ txCount' = 0
    /\ hsResp' = <<>>
    /\ UNCHANGED << ports, hsOk, wire, rd, loopVars, ux, exitBy >>

\* if let Ok(_) = handshake(port.as_mut()) { port_buf.push(port); }
AfterHandshake ==
    /\ pc = "hs_ret"
    /\ port_buf' = IF hsRet = "Ok" THEN Append(port_buf, cand) ELSE port_buf
    /\ cand' = cand + 1
    /\ pc' = "probe"
    \* handshake()'s frame is gone
    /\ i' = 0
    /\ hsRet' = "none"
    /\ hsLog' = <<>>
    /\ txCount' = 0
    /\ hsResp' = <<>>
    /\ UNCHANGED << ports, hsOk, wire, rd, loopVars, ux, exitBy >>

\* the end of find_arduino_serialports() and what main() does with its result
DiscoveryDone ==
    /\ pc = "probe"
    /\ cand > NumCand
    /\ IF port_buf = <<>>
       THEN /\ pc' = "exit"
            /\ exitBy' = "NotFound"
       ELSE /\ pc' = "stdin"
            /\ exitBy' = exitBy
    /\ wire' = <<>>
    /\ rd' = NoRead
    /\ UNCHANGED << discoveryVars, handshakeVars, loopVars, ux >>

\* let arduino_port: &mut dyn SerialPort = arduino_ports[0].as_mut();
arduino_port == port_buf[1]

(***************************************************************************)
(* handshake()                                                             *)
(***************************************************************************)
\* `continue` in `for i in 1..=10`, and the return after the loop
Continue ==
    IF i < MAX_ATTEMPTS
    THEN /\ i' = i + 1
         /\ pc' = "hs_tx"
         /\ hsRet' = hsRet
    ELSE /\ i' = i
         /\ pc' = "hs_ret"
         /\ hsRet' = "ConnectionRefused"

\* Ok(s) if &s[..s.len() - 1] == HANDSHAKE_RX_MSG: the slice panics when s is
\* empty (s.len() - 1 overflows, or is out of range) and when s.len() - 1 is
\* not a character boundary
SlicePanics(s) == Len(s) = 0 \/ ~is_char_boundary(s, Len(s) - 1)
Matches(s) == SubSeq(s, 1, Len(s) - 1) = HANDSHAKE_RX_MSG

\* 1. Send TX to Arduino
HsWriteTx ==
    /\ pc = "hs_tx"
    /\ \E w \in write_str_ends_with(HANDSHAKE_TX_MSG, LF_TERM) :
          /\ wire' = w.out
          /\ IF w.ok
             THEN /\ pc' = "hs_btr"
                  /\ UNCHANGED << i, hsRet >>
             ELSE Continue
    /\ hsLog' = << "write_tx" >>
    /\ txCount' = txCount + 1
    /\ hsResp' = <<>>
    /\ UNCHANGED << discoveryVars, rd, loopVars, ux, exitBy >>

\* eprintln!("{}", port.bytes_to_read().unwrap());
HsBytesToRead ==
    /\ pc = "hs_btr"
    /\ \/ pc' = "hs_rx"
       \/ pc' = "panic"
    /\ UNCHANGED << discoveryVars, handshakeVars, wire, rd, loopVars, ux, exitBy >>

\* 2. Receive RX from Arduino
HsReadRx ==
    /\ pc = "hs_rx"
    /\ \E script \in ReadScripts :
          LET r == read_string_until_byte(script, LF_TERM) IN
          /\ rd' = r
          /\ hsResp' = r.s
          /\ IF ~r.ok THEN Continue
             ELSE IF SlicePanics(r.s)
             THEN /\ pc' = "panic"
                  /\ UNCHANGED << i, hsRet >>
             ELSE IF Matches(r.s)
             THEN /\ pc' = "hs_echo"
                  /\ UNCHANGED << i, hsRet >>
             ELSE Continue
    /\ hsLog' = Append(hsLog, "read_rx")
    /\ UNCHANGED << discoveryVars, txCount, wire, loopVars, ux, exitBy >>

\* 3. Send back RX to Arduino
HsWriteEcho ==
    /\ pc = "hs_echo"
    /\ \E w \in write_str_ends_with(HANDSHAKE_RX_MSG, LF_TERM) :
          /\ wire' = wire \o w.out
          /\ IF w.ok
             THEN /\ pc' = "hs_ack"
                  /\ UNCHANGED << i, hsRet >>
             ELSE Continue
    /\ hsLog' = Append(hsLog, "write_rx")
    /\ UNCHANGED << discoveryVars, txCount, hsResp, rd, loopVars, ux, exitBy >>

\* HsReadAck with the bug of going on to the next attempt after a success
HsReadAck_NoReturn ==
    /\ pc = "hs_ack"
    /\ \E script \in ReadScripts :
          LET r == read_string_until_byte(script, LF_TERM) IN
          /\ rd' = r
          /\ Continue
          /\ hsOk' = IF r.ok /\ i = MAX_ATTEMPTS THEN hsOk \cup {cand} ELSE hsOk
    /\ hsLog' = Append(hsLog, "read_ack")
    /\ UNCHANGED << ports, cand, port_buf, txCount, hsResp, wire, loopVars, ux, exitBy >>

\* the final acknowledgement line, and return Ok(())
HsReadAck ==
    /\ pc = "hs_ack"
    /\ \E script \in ReadScripts :
          LET r == read_string_until_byte(script, LF_TERM) IN
          /\ rd' = r
          /\ IF r.ok
             THEN /\ pc' = "hs_ret"
                  /\ hsRet' = "Ok"
                  /\ hsOk' = hsOk \cup {cand}
                  /\ i' = i
             ELSE /\ Continue
                  /\ hsOk' = hsOk
    /\ hsLog' = Append(hsLog, "read_ack")
    /\ UNCHANGED << ports, cand, port_buf, txCount, hsResp, wire, loopVars, ux, exitBy >>

handshake == HsWriteTx \/ HsBytesToRead \/ HsReadRx \/ HsWriteEcho \/ HsReadAck

(***************************************************************************)
(* The command loop of main().                                             *)
(***************************************************************************)
\* an entry of loopLog: a write with the frame it was to put on the transport,
\* or a read with the string it returned
LogWrite(frame, ok) == [port |-> arduino_port, op |-> "write", bytes |-> frame, ok |-> ok]
LogRead(r) == [port |-> arduino_port, op |-> "read", bytes |-> r.s, ok |-> r.ok]

\* LoopReadLine with the bug of going round the loop again on EOF
LoopReadLine_EofIgnored ==
    /\ pc = "stdin"
    /\ \/ /\ pc' = "dispatch"
          /\ exitBy' = "EOF"
          /\ action' = try_from(<<>>)
          /\ UNCHANGED << nlines, inLog >>
       \/ /\ pc' = "exit"
          /\ exitBy' = "StdinError"
          /\ UNCHANGED << nlines, action, inLog >>
       \/ /\ nlines < MaxLines
          /\ \E line \in StdinLines :
                /\ action' = try_from(line)
                /\ inLog' = Append(inLog, try_from(line))
          /\ nlines' = nlines + 1
          /\ pc' = "dispatch"
          /\ exitBy' = exitBy
    /\ UNCHANGED << discoveryVars, handshakeVars, ux, wire, rd, loopLog, stdout >>

\* match io::stdin().read_line(&mut action_buffer)
LoopReadLine ==
    /\ pc = "stdin"
    /\ \/ \* Ok(0): EOF
          /\ pc' = "exit"
          /\ exitBy' = "EOF"
          /\ UNCHANGED << nlines, action, inLog >>
       \/ \* Err(e)
          /\ pc' = "exit"
          /\ exitBy' = "StdinError"
          /\ UNCHANGED << nlines, action, inLog >>
       \/ \* Ok(_): action = Action::try_from(action_buffer.as_ref())
          /\ nlines < MaxLines
          /\ \E line \in StdinLines :
                /\ action' = try_from(line)
                /\ inLog' = Append(inLog, try_from(line))
          /\ nlines' = nlines + 1
          /\ pc' = "dispatch"
          /\ exitBy' = exitBy
    /\ UNCHANGED << discoveryVars, handshakeVars, ux, wire, rd, loopLog, stdout >>

\* LoopRead with the bug of logging a failed read and going on
LoopRead_ErrorNotFatal ==
    /\ pc = "dispatch"
    /\ action.t = "Read"
    /\ \E script \in ReadScripts :
          LET r == read_string_until_byte(script, LF_TERM) IN
          /\ rd' = r
          /\ loopLog' = Append(loopLog, LogRead(r))
          /\ IF r.ok
             THEN /\ pc' = "forward"
                  /\ UNCHANGED << action, exitBy >>
             ELSE /\ pc' = "stdin"
                  /\ exitBy' = exitBy
                  /\ action' = NoAction
    /\ UNCHANGED << discoveryVars, handshakeVars, ux, wire, nlines, inLog, stdout >>

\* Ok(Action::Read) => match read_string_until_byte(arduino_port, LF_TERM)
LoopRead ==
    /\ pc = "dispatch"
    /\ action.t = "Read"
    /\ \E script \in ReadScripts :
          LET r == read_string_until_byte(script, LF_TERM) IN
          /\ rd' = r
          /\ loopLog' = Append(loopLog, LogRead(r))
          /\ IF r.ok
             THEN /\ pc' = "forward"
                  /\ UNCHANGED << action, exitBy >>
             ELSE /\ pc' = "exit"
                  /\ exitBy' = "ReadError"
                  /\ action' = NoAction
    /\ UNCHANGED << discoveryVars, handshakeVars, ux, wire, nlines, inLog, stdout >>

\* LoopForward with the terminator stripped from what is forwarded
LoopForward_Strip ==
    /\ pc = "forward"
    /\ \E w \in write_stdout(IF rd.s # <<>> /\ rd.s[Len(rd.s)] = LF_TERM
                             THEN SubSeq(rd.s, 1, Len(rd.s) - 1) ELSE rd.s) :
          /\ stdout' = stdout \o w.out
          /\ IF w.ok
             THEN /\ pc' = "stdin"
                  /\ exitBy' = exitBy
             ELSE /\ pc' = "exit"
                  /\ exitBy' = "StdoutError"
    /\ action' = NoAction
    /\ UNCHANGED << discoveryVars, handshakeVars, ux, wire, rd, nlines, inLog, loopLog >>

\* Ok(s) => if let Err(e) = write!(stdout, "{s}") { ...; return; }
LoopForward ==
    /\ pc = "forward"
    /\ \E w \in write_stdout(rd.s) :
          /\ stdout' = stdout \o w.out
          /\ IF w.ok
             THEN /\ pc' = "stdin"
                  /\ exitBy' = exitBy
             ELSE /\ pc' = "exit"
                  /\ exitBy' = "StdoutError"
    /\ action' = NoAction
    /\ UNCHANGED << discoveryVars, handshakeVars, ux, wire, rd, nlines, inLog, loopLog >>

\* LoopWrite with the bug of reading a response after each write
LoopWrite_ThenRead ==
    /\ pc = "dispatch"
    /\ action.t = "Write"
    /\ \E w \in write_str_ends_with(action.s, LF_TERM) :
          /\ wire' = wire \o w.out
          /\ IF w.ok
             THEN /\ \E script \in ReadScripts :
                        LET r == read_string_until_byte(script, LF_TERM) IN
                        /\ rd' = r
                        /\ loopLog' = loopLog \o
                              << LogWrite(action.s \o <<LF_TERM>>, TRUE), LogRead(r) >>
                        /\ pc' = IF r.ok THEN "stdin" ELSE "exit"
                        /\ exitBy' = IF r.ok THEN exitBy ELSE "ReadError"
             ELSE /\ loopLog' = Append(loopLog, LogWrite(action.s \o <<LF_TERM>>, FALSE))
                  /\ rd' = rd
                  /\ pc' = "exit"
                  /\ exitBy' = "WriteError"
    /\ action' = NoAction
    /\ UNCHANGED << discoveryVars, handshakeVars, ux, nlines, inLog, stdout >>

\* Ok(Action::Write(s)) => match write_str_ends_with(arduino_port, &s, LF_TERM)
LoopWrite ==
    /\ pc = "dispatch"
    /\ action.t = "Write"
    /\ \E w \in write_str_ends_with(action.s, LF_TERM) :
          /\ wire' = wire \o w.out
          /\ loopLog' = Append(loopLog, LogWrite(action.s \o <<LF_TERM>>, w.ok))
          /\ IF w.ok
             THEN /\ pc' = "stdin"
                  /\ exitBy' = exitBy
             ELSE /\ pc' = "exit"
                  /\ exitBy' = "WriteError"
    /\ action' = NoAction
    /\ UNCHANGED << discoveryVars, handshakeVars, ux, rd, nlines, inLog, stdout >>

\* LoopParseError with the bug of ending the loop on a line that does not parse
LoopParseError_Fatal ==
    /\ pc = "dispatch"
    /\ IsErr(action)
    /\ pc' = "exit"
    /\ action' = NoAction
    /\ UNCHANGED << discoveryVars, handshakeVars, ux, wire, rd, nlines, inLog,
                    loopLog, stdout, exitBy >>

\* Err(e) => error!("... Invalid input from stdin: ...")
LoopParseError ==
    /\ pc = "dispatch"
    /\ IsErr(action)
    /\ pc' = "stdin"
    /\ action' = NoAction
    /\ UNCHANGED << discoveryVars, handshakeVars, ux, wire, rd, nlines, inLog,
                    loopLog, stdout, exitBy >>

find_arduino_serialports == AvailablePorts \/ Probe \/ AfterHandshake \/ DiscoveryDone

main ==
    \/ find_arduino_serialports
    \/ handshake
    \/ LoopReadLine
    \/ LoopRead
    \/ LoopForward
    \/ LoopWrite
    \/ LoopParseError

Next == main

Spec == Init /\ [][Next]_vars

\* main() runs on its own thread: while a step is possible, one is taken
FairSpec == Spec /\ WF_vars(Next)

(***************************************************************************)
(* Action::try_from and Display on their own.  They are pure functions of  *)
(* a string, which here is any concatenation of at most MaxPieces pieces:  *)
(* the two operation names, "a", " b", U+00E9, and the single bytes space, *)
(* LF, tab and vertical tab.  The input is parsed, a parsed Action is      *)
(* printed, and the printed text is parsed again.                          *)
(***************************************************************************)
Pieces ==
    { OP_READ, OP_WRITE, <<97>>, <<32, 98>>, <<195, 169>>,
      <<32>>, <<10>>, <<9>>, <<11>> }

RECURSIVE Concats(_)
Concats(n) ==
    IF n = 0 THEN { <<>> }
    ELSE LET shorter == Concats(n - 1) IN
         shorter \cup { s \o q : s \in shorter, q \in Pieces }

ParseInputs == Concats(MaxPieces)

InitParse ==
    /\ MainAtStart
    /\ ux \in { [fn |-> "input", line |-> l, act |-> NoAction,
                 shown |-> <<>>, again |-> NoAction] : l \in ParseInputs }

\* Action::try_from(line)
Parse ==
    /\ ux.fn = "input"
    /\ ux' = [ux EXCEPT !.fn = "try_from", !.act = try_from(ux.line)]
    /\ UNCHANGED << pc, discoveryVars, handshakeVars, wire, rd, loopVars, exitBy >>

\* format!("{}", act)
Show ==
    /\ ux.fn = "try_from"
    /\ ~IsErr(ux.act)
    /\ ux' = [ux EXCEPT !.fn = "fmt", !.shown = fmt(ux.act)]
    /\ UNCHANGED << pc, discoveryVars, handshakeVars, wire, rd, loopVars, exitBy >>

\* Action::try_from of the printed text
Reparse ==
    /\ ux.fn = "fmt"
    /\ ux' = [ux EXCEPT !.fn = "reparsed", !.again = try_from(ux.shown)]
    /\ UNCHANGED << pc, discoveryVars, handshakeVars, wire, rd, loopVars, exitBy >>

NextParse == Parse \/ Show \/ Reparse

ParseSpec == InitParse /\ [][NextParse]_vars

(***************************************************************************)
(* write_str_ends_with on its own: a caller writes up to MaxCalls strings, *)
(* each with a terminator of its choice, to one transport.  `stream` is    *)
(* what the transport has received, `calls` the calls made so far with     *)
(* their results.  The strings are "", "a", "ab" and "a\n"; the            *)
(* terminators are LF and NUL.                                             *)
(***************************************************************************)
Payloads == { <<>>, <<97>>, <<97, 98>>, <<97, 10>> }
Terminators == { LF_TERM, 0 }

InitCodec ==
    /\ MainAtStart
    /\ ux = [fn |-> "write_str_ends_with", stream |-> <<>>, calls |-> <<>>]

WriteStr ==
    /\ ux.fn = "write_str_ends_with"
    /\ Len(ux.calls) < MaxCalls
    /\ \E p \in Payloads, e \in Terminators :
         \E w \in write_str_ends_with(p, e) :
            ux' = [ux EXCEPT
                     !.stream = @ \o w.out,
                     !.calls = Append(@, [str_to_write |-> p, endbyte |-> e,
                                          ok |-> w.ok, out |-> w.out])]
    /\ UNCHANGED << pc, discoveryVars, handshakeVars, wire, rd, loopVars, exitBy >>

NextCodec == WriteStr

CodecSpec == InitCodec /\ [][NextCodec]_vars

(***************************************************************************)
(* The fixed-width codec on its own: a value is written to a loopback      *)
(* transport with one of the four write functions and read back with the   *)
(* read function of the same width and order.                              *)
(***************************************************************************)
Values(width) ==
    { [k \in 1..width |-> 0], [k \in 1..width |-> k],
      [k \in 1..width |-> IF k = 1 THEN 1 ELSE 0],
      [k \in 1..width |-> IF k = width THEN 128 ELSE 255],
      [k \in 1..width |-> 255] }

InitFixed ==
    /\ MainAtStart
    /\ ux \in { [fn |-> "value", width |-> w, order |-> o, val |-> v,
                 stream |-> <<>>, got |-> <<>>] :
                 w \in {DWORD, QWORD}, o \in {"raw", "flipped_endian"},
                 v \in Values(DWORD) \cup Values(QWORD) }
    /\ Len(ux.val) = ux.width

WriteFixed ==
    /\ ux.fn = "value"
    /\ \E w \in (IF ux.order = "raw" THEN write_raw(ux.val, ux.width)
                  ELSE write_flipped_endian(ux.val, ux.width)) :
          ux' = [ux EXCEPT !.fn = IF w.k = "ok" THEN "written" ELSE w.k,
                           !.stream = w.out]
    /\ UNCHANGED << pc, discoveryVars, handshakeVars, wire, rd, loopVars, exitBy >>

ReadFixed ==
    /\ ux.fn = "written"
    /\ LET r == IF ux.order = "raw" THEN read_raw(ux.stream, ux.width)
                ELSE read_flipped_endian(ux.stream, ux.width) IN
       ux' = [ux EXCEPT !.fn = IF r.ok THEN "read" ELSE "err", !.got = r.val]
    /\ UNCHANGED << pc, discoveryVars, handshakeVars, wire, rd, loopVars, exitBy >>

NextFixed == WriteFixed \/ ReadFixed

FixedSpec == InitFixed /\ [][NextFixed]_vars

(***************************************************************************)
(* Properties.                                                             *)
(***************************************************************************)
HsPcs == {"hs_tx", "hs_btr", "hs_rx", "hs_echo", "hs_ack"}
LoopPcs == {"stdin", "dispatch", "forward"}
FullAttempt == << "write_tx", "read_rx", "write_rx", "read_ack" >>

Last(s) == s[Len(s)]
Front(s) == SubSeq(s, 1, Len(s) - 1)

\* the transport calls a sequence of parsed lines asks for, in order
RECURSIVE ExpectedOps(_)
ExpectedOps(acts) ==
    IF acts = <<>> THEN <<>>
    ELSE LET a == Head(acts) IN
         (IF a.t = "Write" THEN << [op |-> "write", bytes |-> a.s \o <<LF_TERM>>] >>
          ELSE IF a.t = "Read" THEN << [op |-> "read", bytes |-> <<>>] >>
          ELSE <<>>)
         \o ExpectedOps(Tail(acts))

\* the transport calls the command loop issued: writes with their frame
Issued(log) ==
    [k \in 1..Len(log) |->
        [op |-> log[k].op,
         bytes |-> IF log[k].op = "write" THEN log[k].bytes ELSE <<>>]]

\* the concatenation of the bytes of the successful calls `op` of the log
RECURSIVE BytesOf(_, _)
BytesOf(log, op) ==
    IF log = <<>> THEN <<>>
    ELSE (IF Head(log).op = op /\ Head(log).ok THEN Head(log).bytes ELSE <<>>)
         \o BytesOf(Tail(log), op)

\* a string without its last byte when that is the terminator
StripTerminator(s) ==
    IF s # <<>> /\ Last(s) = LF_TERM THEN Front(s) ELSE s

RECURSIVE StrippedReads(_)
StrippedReads(log) ==
    IF log = <<>> THEN <<>>
    ELSE (IF Head(log).op = "read" /\ Head(log).ok
          THEN StripTerminator(Head(log).bytes) ELSE <<>>)
         \o StrippedReads(Tail(log))

AllOk(log) == \A k \in 1..Len(log) : log[k].ok

\* C1: a handshake() call in which every attempt fails makes exactly 10
\* attempts, writing the challenge once in each, and then returns
\* ConnectionRefused: it is never over, without Ok, after fewer attempts, and
\* the attempt counter never passes 10.
C1_TenAttemptsThenRefused ==
    /\ i <= MAX_ATTEMPTS
    /\ (pc \in {"hs_ret", "panic"} /\ hsRet # "Ok") =>
          /\ hsRet = "ConnectionRefused"
          /\ i = MAX_ATTEMPTS
          /\ txCount = MAX_ATTEMPTS

\* C2: when the current attempt has made its four transport calls and the
\* last, the read of the acknowledgement, succeeded, handshake() has returned
\* Ok at that attempt (after one challenge per attempt so far), and when it
\* returned Ok the read of the acknowledgement is the last call it made.
C2_SuccessEndsHandshake ==
    /\ (hsLog = FullAttempt /\ rd.ok) =>
          /\ pc = "hs_ret"
          /\ hsRet = "Ok"
          /\ i \in 1..MAX_ATTEMPTS
          /\ txCount = i
    /\ hsRet = "Ok" => (pc = "hs_ret" /\ hsLog = FullAttempt /\ rd.ok)

\* C2 witness: handshake() returned Ok at its third attempt
C2_Witness == hsRet = "Ok" /\ i = 3 /\ pc = "hs_ret"

\* C3: while fewer than 10 attempts have been made, a step of handshake()
\* that writes the challenge, reads the response, writes the echo or reads
\* the acknowledgement either goes on within the attempt or starts the next
\* attempt: no failure of such a step ends the handshake or the process.
C3_FailureEndsOnlyTheAttempt ==
    [][ (pc \in {"hs_tx", "hs_rx", "hs_echo", "hs_ack"} /\ i < MAX_ATTEMPTS) =>
           \/ /\ << pc, pc' >> \in { << "hs_tx", "hs_btr" >>, << "hs_rx", "hs_echo" >>,
                                     << "hs_echo", "hs_ack" >>, << "hs_ack", "hs_ret" >> }
              /\ i' = i
              /\ hsRet' \in {"none", "Ok"}
           \/ /\ pc' = "hs_tx"
              /\ i' = i + 1
              /\ hsRet' = "none" ]_vars

\* C4: every handshake() call that was started returns.
C4_HandshakeReturns == (pc \in HsPcs) ~> (pc = "hs_ret")

\* C5: every transport call of the command loop is on a candidate whose
\* handshake() returned Ok, the loop runs only on such a candidate, and when no
\* handshake returned Ok no line is read from stdin and no call is issued.
C5_LoopOnlyAfterHandshake ==
    /\ \A k \in 1..Len(loopLog) : loopLog[k].port \in hsOk
    /\ pc \in LoopPcs => (port_buf # <<>> /\ arduino_port \in hsOk)
    /\ hsOk = {} => (nlines = 0 /\ loopLog = <<>> /\ pc \notin LoopPcs)
    /\ exitBy = "NotFound" => (hsOk = {} /\ nlines = 0 /\ loopLog = <<>>)

\* C5 witness: the first candidate was refused, the second one handshook, and
\* the loop issued a call on the second
C5_Witness ==
    /\ loopLog # <<>>
    /\ hsOk = {2}
    /\ loopLog[1].port = 2

\* C6: the transport calls of the command loop are, in input order, one
\* terminated write per line that parsed to Write and one read per line that
\* parsed to Read, nothing for a line that did not parse, the call for the line
\* being dispatched still to come; every call but the last has succeeded, and a
\* failed call has ended the loop; while the loop runs the transport has taken
\* exactly the frames of the Write lines.
C6_OpsFollowInput ==
    /\ Issued(loopLog) = IF pc = "dispatch" /\ ~IsErr(action)
                         THEN Front(ExpectedOps(inLog))
                         ELSE ExpectedOps(inLog)
    /\ loopLog # <<>> => AllOk(Front(loopLog))
    /\ (loopLog # <<>> /\ ~Last(loopLog).ok) => pc = "exit"
    /\ pc \in LoopPcs => wire = BytesOf(loopLog, "write")

\* C6 witness: "WRITE ..." then "READ": the write, then the read, both done
C6_Witness ==
    /\ pc = "stdin"
    /\ Len(loopLog) = 2
    /\ loopLog[1].op = "write" /\ loopLog[1].ok
    /\ loopLog[2].op = "read" /\ loopLog[2].ok

\* C7: once stdin returned EOF main() has returned and takes no further step;
\* the calls issued are those of the lines read, all complete; with EOF at
\* once there is none; and whenever stdin is about to be read the transport
\* holds whole frames only, payload and terminator.
C7_CleanEof ==
    /\ exitBy = "EOF" =>
          /\ pc = "exit"
          /\ ~ENABLED Next
          /\ Issued(loopLog) = ExpectedOps(inLog)
          /\ AllOk(loopLog)
          /\ wire = BytesOf(loopLog, "write")
    /\ (exitBy = "EOF" /\ nlines = 0) => (loopLog = <<>> /\ wire = <<>> /\ stdout = <<>>)
    /\ pc = "stdin" => wire = BytesOf(loopLog, "write")

\* C7 witness: EOF after a line that was written to the transport
C7_Witness ==
    /\ exitBy = "EOF"
    /\ loopLog # <<>>
    /\ Last(loopLog).op = "write"

\* C8: when a transport call of the command loop has failed, main() has
\* returned and takes no further step, and stdout holds only what the earlier
\* successful reads returned.
C8_TransportFailureIsFatal ==
    (loopLog # <<>> /\ ~Last(loopLog).ok) =>
        /\ pc = "exit"
        /\ exitBy = (IF Last(loopLog).op = "read" THEN "ReadError" ELSE "WriteError")
        /\ ~ENABLED Next
        /\ stdout = BytesOf(loopLog, "read")
        /\ Len(inLog) = nlines /\ Len(ExpectedOps(inLog)) = Len(loopLog)

\* C8 witness: a write succeeded, then a read returned bytes that are not UTF-8
C8_Witness ==
    /\ exitBy = "ReadError"
    /\ rd.err = "utf8"
    /\ Len(loopLog) = 2
    /\ loopLog[1].op = "write"

\* C9: the step that handles a line that failed to parse changes nothing
\* but the loop's position: no transport call, nothing on stdout, no exit; and
\* stdin is then read in the state the loop had before the line (no action).
C9_ParseErrorIsSkipped ==
    /\ [][ (pc = "dispatch" /\ IsErr(action)) =>
              /\ pc' = "stdin"
              /\ UNCHANGED << wire, loopLog, stdout, rd, port_buf, exitBy >> ]_vars
    /\ [](pc = "stdin" => action = NoAction)

\* C9 witness: a line that did not parse, then a line that was written
C9_Witness ==
    /\ pc = "stdin"
    /\ Len(inLog) = 2
    /\ IsErr(inLog[1])
    /\ inLog[2].t = "Write"
    /\ Len(loopLog) = 1 /\ loopLog[1].ok

\* C10, as claimed: stdout holds the responses of the successful reads with
\* their terminator stripped.
C10_StdoutStripped ==
    pc = "stdin" => stdout = StrippedReads(loopLog)

\* C10, amended: stdout holds the strings the successful reads returned,
\* unchanged, the terminator included.
C10_StdoutVerbatim ==
    pc = "stdin" => stdout = BytesOf(loopLog, "read")

\* C10 witness: a terminated response was forwarded, terminator and all
C10_Witness ==
    /\ pc = "stdin"
    /\ loopLog # <<>>
    /\ Last(loopLog).op = "read"
    /\ Last(loopLog).bytes = <<120, 10>>
    /\ stdout = <<120, 10>>

(***************************************************************************)
(* The grammar of an input line, stated on the positions of the line: a    *)
(* token is a maximal run of bytes that are not ASCII whitespace.          *)
(***************************************************************************)
AsciiWhitespace == {9, 10, 12, 13, 32}

TokenSpans(s) ==
    { sp \in (1..Len(s)) \X (1..Len(s)) :
        /\ sp[1] <= sp[2]
        /\ \A k \in sp[1]..sp[2] : s[k] \notin AsciiWhitespace
        /\ sp[1] = 1 \/ s[sp[1] - 1] \in AsciiWhitespace
        /\ sp[2] = Len(s) \/ s[sp[2] + 1] \in AsciiWhitespace }

\* the n-th token of s, counted from the left
Token(s, n) ==
    LET sp == CHOOSE x \in TokenSpans(s) :
                  Cardinality({ y \in TokenSpans(s) : y[1] <= x[1] }) = n
    IN  SubSeq(s, sp[1], sp[2])

\* tokens n, n+1, ... of s, each followed by one space
RECURSIVE Rejoin(_, _)
Rejoin(s, n) ==
    IF n > Cardinality(TokenSpans(s)) THEN <<>>
    ELSE Token(s, n) \o <<32>> \o Rejoin(s, n + 1)

Grammar(s) ==
    IF TokenSpans(s) = {} THEN [t |-> "EmptyOpSequence", s |-> <<>>]
    ELSE IF Token(s, 1) = <<82, 69, 65, 68>> THEN [t |-> "Read", s |-> <<>>]
    ELSE IF Token(s, 1) = <<87, 82, 73, 84, 69>>
         THEN [t |-> "Write", s |-> Rejoin(s, 2)]
    ELSE [t |-> "UndefinedOpSequence", s |-> <<>>]

\* C11: for every input line Action::try_from returns what the grammar says:
\* EmptyOpSequence for a line without tokens, Read when the first token is
\* READ whatever follows, Write of the remaining tokens each followed by one
\* space when the first token is WRITE, UndefinedOpSequence otherwise; the
\* result is always one of these four, never MalformedOpSequence.
C11_ParseIsGrammar ==
    ux.fn # "input" =>
        /\ ux.act = Grammar(ux.line)
        /\ ux.act.t \in {"Read", "Write", "EmptyOpSequence", "UndefinedOpSequence"}
        /\ ux.line = OP_WRITE \o <<32>> \o <<102, 111, 111>> =>
              ux.act = ActionWrite(<<102, 111, 111, 32>>)

\* "WRITE b b" has been parsed into the payload "b b "
C11_Witness ==
    /\ ux.fn = "try_from"
    /\ ux.line = OP_WRITE \o <<32, 98, 32, 98>>
    /\ ux.act = ActionWrite(<<98, 32, 98, 32>>)

\* C12: a string read_string_until_byte returns with Ok ends with the
\* terminator and holds it nowhere else; in particular it is not empty.
C12_OkEndsWithTerminator ==
    rd.ok =>
        /\ rd.s # <<>>
        /\ Last(rd.s) = LF_TERM
        /\ \A k \in 1..(Len(rd.s) - 1) : rd.s[k] # LF_TERM

\* the frames of the calls of a log, one after the other
RECURSIVE Frames(_)
Frames(calls) ==
    IF calls = <<>> THEN <<>>
    ELSE Head(calls).str_to_write \o << Head(calls).endbyte >> \o Frames(Tail(calls))

\* C13: a call of write_str_ends_with that returns Ok has put the string and
\* then one terminator byte on the transport, so after successful calls only
\* the transport holds the frames of the calls in order and nothing else; a
\* call that put less than its whole frame on the transport returned an error.
C13_PayloadThenOneTerminator ==
    ux.fn = "write_str_ends_with" =>
        /\ AllOk(ux.calls) => ux.stream = Frames(ux.calls)
        /\ \A k \in 1..Len(ux.calls) :
              LET c == ux.calls[k] IN
              c.ok <=> c.out = c.str_to_write \o << c.endbyte >>

\* two successful calls, the first of a string that holds the terminator
C13_Witness ==
    /\ ux.fn = "write_str_ends_with"
    /\ Len(ux.calls) = 2
    /\ AllOk(ux.calls)
    /\ ux.calls[1].str_to_write = <<97, 10>>
    /\ ux.calls[1].endbyte = LF_TERM
    /\ ux.stream = <<97, 10, 10>> \o ux.calls[2].str_to_write \o << ux.calls[2].endbyte >>
    /\ ux.calls[2].str_to_write # <<>>

\* C14: a DWORD or QWORD written with a write function and read back with
\* the read function of the same width and order is the value written, the
\* write puts the width bytes of the value (reversed for the flipped order)
\* on the transport, and the write does not fault.
C14_FixedRoundTrip ==
    /\ ux.fn # "fault"
    /\ ux.fn \in {"written", "read"} =>
          ux.stream = (IF ux.order = "raw" THEN ux.val ELSE Reverse(ux.val))
    /\ ux.fn = "read" => ux.got = ux.val

\* C15: handshake() returns Ok only when the response read in its last
\* attempt was "ARDUINO_1 TO PC" followed by LF; a response that ends in any
\* other byte does not pass the comparison.
C15_OkOnlyOnExactResponse ==
    (pc = "hs_ret" /\ hsRet = "Ok") => hsResp = HANDSHAKE_RX_MSG \o << LF_TERM >>

IsPrefix(s, u) == Len(s) <= Len(u) /\ s = SubSeq(u, 1, Len(s))

\* C16: within an attempt the calls on the transport are, in this order,
\* the write of "PC TO ARDUINO_1\n", the response read, the write of
\* "ARDUINO_1 TO PC\n" and the acknowledgement read; the echo is written only
\* after the response of that attempt was the expected line, Ok is returned
\* only after the acknowledgement read of that attempt succeeded, and a
\* retry starts again at the write of the challenge.
C16_AttemptOrder ==
    /\ [](/\ IsPrefix(hsLog, FullAttempt)
          /\ pc \in HsPcs =>
                IsPrefix(wire, HANDSHAKE_TX_MSG \o << LF_TERM >>
                                \o HANDSHAKE_RX_MSG \o << LF_TERM >>)
          /\ pc \in {"hs_echo", "hs_ack"} =>
                /\ Last(hsLog) \in {"read_rx", "write_rx"}
                /\ hsResp = HANDSHAKE_RX_MSG \o << LF_TERM >>
          /\ hsRet = "Ok" => hsLog = FullAttempt /\ rd.ok)
    /\ [][/\ i' # i /\ pc \in HsPcs => pc' = "hs_tx" /\ i' = i + 1
          /\ pc = "hs_tx" /\ pc' # "hs_tx" => hsLog' = << "write_tx" >>]_vars

\* the elements of a set of candidates in the order they are probed
RECURSIVE InProbeOrder(_)
InProbeOrder(S) ==
    IF S = {} THEN <<>>
    ELSE LET c == CHOOSE x \in S : \A y \in S : x <= y IN
         << c >> \o InProbeOrder(S \ {c})

\* find_arduino_serialports() has returned
DiscoveryOver == pc \in LoopPcs \/ pc = "exit"

\* C17: a candidate whose handshake returned ConnectionRefused is dropped and
\* the next candidate is probed; when discovery returns, every candidate has
\* been probed, the transports returned are the candidates whose handshake
\* returned Ok, in probe order, and the result is NotFound exactly when
\* there is no such candidate.
C17_RefusedCandidateIsSkipped ==
    /\ [](/\ port_buf = InProbeOrder({ c \in hsOk : c < cand })
          /\ DiscoveryOver /\ exitBy # "PortsError" =>
                cand > NumCand /\ port_buf = InProbeOrder(hsOk)
          /\ DiscoveryOver => (exitBy = "NotFound" <=> hsOk = {}))
    /\ [][(pc = "hs_ret" /\ hsRet = "ConnectionRefused") =>
            (pc' = "probe" /\ cand' = cand + 1 /\ port_buf' = port_buf)]_vars

\* C18: no byte the device sent is lost between reads: when a call of
\* read_string_until_byte returns, every byte it took from the transport is
\* in the string it returned, so what arrived after the terminator is still
\* there for the next call.
C18_NoByteLost == rd.ok => rd.dropped = <<>>

\* how often the byte b occurs in s
Count(b, s) == Cardinality({ k \in 1..Len(s) : s[k] = b })

\* C19: the payload Action::try_from gives a Write holds no LF and no other
\* ASCII whitespace byte (tab, form feed, CR) except spaces, and every space
\* stands alone behind a token; so the frame the loop writes for it,
\* write_str_ends_with(payload, LF), holds exactly one LF, as its last byte.
C19_WriteFrameWellFormed ==
    (ux.fn # "input" /\ ux.act.t = "Write") =>
        LET p == ux.act.s IN
        /\ \A k \in 1..Len(p) :
              /\ p[k] \notin {9, 10, 12, 13}
              /\ p[k] = 32 => (k > 1 /\ p[k - 1] # 32)
        /\ \A w \in write_str_ends_with(p, LF_TERM) :
              w.ok => /\ Count(LF_TERM, w.out) = 1
                      /\ Last(w.out) = LF_TERM
                      /\ w.out = p \o << LF_TERM >>

\* "WRITE", tab, " b", LF has been parsed into the payload "b "
C19_Witness ==
    /\ ux.fn = "try_from"
    /\ ux.line = OP_WRITE \o <<9, 32, 98, 10>>
    /\ ux.act = ActionWrite(<<98, 32>>)
    /\ [ok |-> TRUE, out |-> <<98, 32, 10>>] \in write_str_ends_with(ux.act.s, LF_TERM)

\* C20: an Action that Action::try_from returned, printed with Display and
\* parsed again, is the same Action.
C20_PrintThenParse ==
    ux.fn = "reparsed" => ux.again = ux.act

\* the payload "b a " has been printed as "WRITE b a " and parsed again
C20_Witness ==
    /\ ux.fn = "reparsed"
    /\ ux.act = ActionWrite(<<98, 32, 97, 32>>)
    /\ ux.shown = OP_WRITE \o <<32, 98, 32, 97, 32>>
    /\ ux.again = ux.act
====
